---- MODULE Spec2Model ----
(***************************************************************************)
(* dgit working-copy engine: the object store's GetObject, the path-scoped *)
(* CheckoutIndex and the commit-level CheckoutCommit, as state machines    *)
(* over the persisted index file, the working tree, the object store and   *)
(* the refs.                                                               *)
(*                                                                         *)
(*   SpecObj  GetObject / GetContent applied to every stored stream        *)
(*   SpecCI   CheckoutIndex over varied object stores                      *)
(*   Spec     CheckoutCommit (with the CheckoutIndex run it makes) and     *)
(*            CheckoutIndex calls, over varied index / working tree        *)
(***************************************************************************)
EXTENDS Integers, Sequences, FiniteSets, TLC

VARIABLES
    refs,       \* [head |-> HEAD's value, heads |-> branch name -> commit or NoCommit]
    indexFile,  \* the persisted index: [entries |-> Seq(IndexEntry), complete |-> BOOLEAN]
    wt,         \* working tree: file name -> [content, perm, mtime] or NoFile
    objects,    \* object store: Sha1 -> stored object
    sparse,     \* paths the sparse-checkout configuration excludes
    clock,      \* file-system time, stamped on every file write
    pc,         \* position of the running operation
    cc,         \* locals of CheckoutCommit; step is the last step of its sequence entered
    ci,         \* locals of CheckoutIndex
    result,     \* what the operation returned (or that it panicked)
    pre         \* index file, working tree and refs as they were when the call began

vars == <<refs, indexFile, wt, objects, sparse, clock, pc, cc, ci, result, pre>>

-----------------------------------------------------------------------------
(* Bounds of the model *)

\* number of distinct file contents in the index, the trees and the working tree
MaxContent == 2
\* longest blob content and largest size field of a stored stream (SpecObj)
MaxLen == 2

-----------------------------------------------------------------------------
(* Paths, contents, digests *)

\* The tracked paths, in the byte-wise order of the index ('R' < 'n').
PathOrder == <<"README", "notes.txt">>
Paths == {PathOrder[i] : i \in 1..Len(PathOrder)}
PathRank(p) == CHOOSE i \in 1..Len(PathOrder) : PathOrder[i] = p

\* lsByPath.Less / the index's ordering invariant on paths
PathLess(p, q) == PathRank(p) < PathRank(q)

\* One-byte file contents <<1>>, <<2>>, ...
FileContents == {<<k>> : k \in 1..MaxContent}

\* SHA-1 as an injective encoding of the byte sequences in scope (bytes 0..7).
RECURSIVE Sha1Of(_)
Sha1Of(c) == IF c = <<>> THEN 1 ELSE 8 * Sha1Of(Tail(c)) + Head(c)

Sha1 == {Sha1Of(c) : c \in FileContents}

\* File modes 0644 and 0755
ModeRegular == 420
ModeExec == 493

NoFile == [absent |-> TRUE]
NoCommit == "none"

-----------------------------------------------------------------------------
(* Object store: objects.go *)

\* A decompressed stream: its first five bytes ("short" when it has fewer),
\* the decimal size field (or -1 when the field is not a decimal number),
\* whether a zero byte ends the header, and the bytes after that zero byte.
Stream(tag, size, nul, content) ==
    [tag |-> tag, size |-> size, nul |-> nul, content |-> content]

\* The stored forms of an object.
Absent == [state |-> "absent"]
Packed == [state |-> "packed"]
HaveErr == [state |-> "haveerr"]
Loose(zlibOk, stream) == [state |-> "loose", zlib |-> zlibOk, stream |-> stream]

\* The stream a sound blob with content c is stored as.
SoundBlob(c) == Loose(TRUE, Stream("blob ", Len(c), TRUE, c))

OkObj(size, content) == [kind |-> "ok", size |-> size, content |-> content]
ErrRes(e) == [kind |-> "err", err |-> e]
Panic == [kind |-> "panic"]

\* strconv.Atoi on the size field: 0 and an error (only printed) when the
\* field is not a decimal number.
Atoi(field) == IF field < 0 THEN 0 ELSE field

\* Client.GetObject. b[0:5] of a stream of fewer than five bytes reads within
\* the capacity ioutil.ReadAll allocated and does not equal "blob ".
GetObject(o) ==
    CASE o.state = "packed" -> ErrRes("GetObject does not yet support packed objects")
      [] o.state = "haveerr" -> Panic
      [] o.state = "absent" -> Panic
      [] o.state = "loose" ->
            IF ~o.zlib THEN ErrRes("zlib")
            ELSE IF o.stream.tag = "short" THEN ErrRes("Invalid object")
            ELSE IF o.stream.tag = "blob "
                 THEN IF o.stream.nul
                      THEN OkObj(Atoi(o.stream.size), o.stream.content)
                      ELSE OkObj(0, <<>>)
                 ELSE ErrRes("Invalid object")

\* GitBlobObject.GetContent
GetContent(obj) ==
    IF Len(obj.content) /= obj.size THEN Panic
    ELSE [kind |-> "content", content |-> obj.content]

-----------------------------------------------------------------------------
(* Index and working tree *)

IndexEntry(path, sha, mode, skip) ==
    [path |-> path, sha |-> sha, mode |-> mode, stage |-> 0,
     skip |-> skip, mtime |-> 0]

\* A complete index file holding the entries es.
IndexOf(es) == [entries |-> es, complete |-> TRUE]

\* GitDir.ReadIndex: the entries of a complete index file; an incomplete file
\* is a corrupt index.
ReadIndexOk(file) == file.complete

\* Index.GetMap / filesInIndex: the paths of a sequence of entries
PathsOf(es) == {es[i].path : i \in 1..Len(es)}

\* The entry of path p in es (p is in PathsOf(es))
EntryOf(es, p) == es[CHOOSE i \in 1..Len(es) : es[i].path = p]

\* The entries sorted by path that hold, for each path of dom, the entry e[p]
RECURSIVE SortedFrom(_, _, _)
SortedFrom(k, dom, e) ==
    IF k > Len(PathOrder) THEN <<>>
    ELSE IF PathOrder[k] \in dom
         THEN <<e[PathOrder[k]]>> \o SortedFrom(k + 1, dom, e)
         ELSE SortedFrom(k + 1, dom, e)

\* checkout-index --prefix values: none, or a string put before the path
Prefixes == {"", "out-"}
FileNames == {prefix \o p : prefix \in Prefixes, p \in Paths}

FileOf(content, perm, mtime) == [content |-> content, perm |-> perm, mtime |-> mtime]

\* File.Exists
Exists(w, f) == w[f] /= NoFile

\* A directory of the working tree
Dir == [dir |-> TRUE, mtime |-> 0]

\* File.IsDir
IsDir(w, f) == f \in DOMAIN w /\ w[f] = Dir

\* The position of the last "/" of f, 0 when it has none
LastSlash(f) ==
    LET at == {i \in 1..Len(f) : SubSeq(f, i, i) = "/"}
    IN  IF at = {} THEN 0 ELSE CHOOSE i \in at : \A j \in at : j <= i

\* The directory a path lies in, "" for a path of the working directory
ParentOf(f) == IF LastSlash(f) = 0 THEN "" ELSE SubSeq(f, 1, LastSlash(f) - 1)

\* Whether ioutil.WriteFile can open f: the directory it lies in exists (no
\* parent is created), and f is not itself a directory
CanWrite(w, f) == (ParentOf(f) = "" \/ IsDir(w, ParentOf(f))) /\ ~IsDir(w, f)

\* ioutil.WriteFile: truncate or create; the mode is given to a created file only
WriteFile(w, f, data, perm, now) ==
    [w EXCEPT ![f] = FileOf(data, IF w[f] = NoFile THEN perm ELSE w[f].perm, now)]

\* os.Chmod, its error ignored
Chmod(w, f, perm) ==
    IF w[f] = NoFile THEN w ELSE [w EXCEPT ![f] = [@ EXCEPT !.perm = perm]]

\* os.Remove / os.RemoveAll of a file
Remove(w, f) == [w EXCEPT ![f] = NoFile]

\* HashFile("blob", f) of an existing file
HashFile(w, f) == Sha1Of(w[f].content)

Snapshot == [indexFile |-> indexFile, wt |-> wt, refs |-> refs]

NoLocals == [none |-> TRUE]
NoResult == [kind |-> "running"]
Nil == [kind |-> "nil"]

-----------------------------------------------------------------------------
(* CheckoutIndex: checkoutindex.go *)

CheckoutIndexOptions(updateStat, force, all, noCreate, prefix) ==
    [UpdateStat |-> updateStat, Force |-> force, All |-> all,
     NoCreate |-> noCreate, Prefix |-> prefix]

\* The entry's paths, in index order (opts.All)
RECURSIVE EntryPaths(_)
EntryPaths(es) == IF es = <<>> THEN <<>> ELSE <<Head(es).path>> \o EntryPaths(Tail(es))

InSeq(x, s) == \E i \in 1..Len(s) : s[i] = x

\* CheckoutIndex, lines 39-51, as the state a call with these arguments starts
\* the loop in, or the error it returns at once.
CIStart(opts, files, caller) ==
    IF files /= <<>> /\ opts.All
    THEN [ret |-> ErrRes("Can not mix --all and named files")]
    ELSE IF ~ReadIndexOk(indexFile)
    THEN [ret |-> ErrRes("corrupt index")]
    ELSE [ret |-> NoResult,
          locals |-> [opts |-> opts,
                      files |-> IF opts.All THEN EntryPaths(indexFile.entries) ELSE files,
                      idx |-> indexFile.entries, i |-> 1, caller |-> caller]]

\* Mutant of CIProcess: the test opts.Prefix == "" of line 96 is lost
CIProcess_StatWithPrefix(w, entry, file, opts, now) ==
    LET f == opts.Prefix \o file
        obj == GetObject(objects[entry.sha])
        stay == [wt |-> w, entry |-> entry]
    IN  IF obj.kind = "panic" THEN stay @@ [out |-> Panic]
        ELSE IF Exists(w, f) /\ ~opts.Force THEN stay @@ [out |-> Nil]
        ELSE IF obj.kind = "err" THEN stay @@ [out |-> obj]
        ELSE LET data == GetContent(obj)
                 w1 == IF opts.NoCreate THEN w
                       ELSE Chmod(WriteFile(w, f, data.content, entry.mode, now),
                                  file, entry.mode)
             IN  IF ~opts.NoCreate /\ data.kind = "panic" THEN stay @@ [out |-> Panic]
                 ELSE IF ~opts.NoCreate /\ ~CanWrite(w, f)
                      THEN stay @@ [out |-> ErrRes("write file")]
                 ELSE IF opts.UpdateStat
                      THEN IF ~Exists(w1, f)
                           THEN [wt |-> w1, entry |-> entry, out |-> ErrRes("stat")]
                           ELSE [wt |-> w1,
                                 entry |-> [entry EXCEPT !.mtime = w1[f].mtime],
                                 out |-> Nil]
                      ELSE [wt |-> w1, entry |-> entry, out |-> Nil]

\* What one (entry, file) pair of the loop does, lines 68-105:
\* [wt, entry, out], out being "next" (go on), an error returned, or a panic.
CIProcess(w, entry, file, opts, now) ==
    LET f == opts.Prefix \o file
        obj == GetObject(objects[entry.sha])
        stay == [wt |-> w, entry |-> entry]
    IN  IF obj.kind = "panic" THEN stay @@ [out |-> Panic]
        ELSE IF Exists(w, f) /\ ~opts.Force THEN stay @@ [out |-> Nil]
        ELSE IF obj.kind = "err" THEN stay @@ [out |-> obj]
        ELSE LET data == GetContent(obj)
                 w1 == IF opts.NoCreate THEN w
                       ELSE Chmod(WriteFile(w, f, data.content, entry.mode, now),
                                  file, entry.mode)
             IN  IF ~opts.NoCreate /\ data.kind = "panic" THEN stay @@ [out |-> Panic]
                 ELSE IF ~opts.NoCreate /\ ~CanWrite(w, f)
                      THEN stay @@ [out |-> ErrRes("write file")]
                 ELSE IF opts.UpdateStat /\ opts.Prefix = ""
                      THEN IF ~Exists(w1, f)
                           THEN [wt |-> w1, entry |-> entry, out |-> ErrRes("stat")]
                           ELSE [wt |-> w1,
                                 entry |-> [entry EXCEPT !.mtime = w1[f].mtime],
                                 out |-> Nil]
                      ELSE [wt |-> w1, entry |-> entry, out |-> Nil]

\* return from CheckoutIndex: to the user, or into CheckoutCommit (line 295)
CIReturn(res) ==
    IF ci.caller = "CheckoutCommit" /\ res = Nil
    THEN pc' = "cc_refs" /\ result' = result
    ELSE pc' = "done" /\ result' = res

\* One iteration of the loop over idx.Objects (lines 53-107)
CI_Entry ==
    /\ pc = "ci_loop"
    /\ ci.i <= Len(ci.idx)
    /\ LET entry == ci.idx[ci.i]
           r == IF InSeq(entry.path, ci.files)
                THEN CIProcess(wt, entry, entry.path, ci.opts, clock)
                ELSE [wt |-> wt, entry |-> entry, out |-> Nil]
       IN  /\ wt' = r.wt
           /\ clock' = IF r.wt /= wt THEN clock + 1 ELSE clock
           /\ ci' = [ci EXCEPT !.idx[ci.i] = r.entry, !.i = ci.i + 1]
           /\ IF r.out = Nil
              THEN pc' = pc /\ result' = result
              ELSE pc' = "done" /\ result' = r.out
    /\ UNCHANGED <<refs, indexFile, objects, sparse, cc, pre>>

\* Mutant of CI_End: the index is saved whether or not UpdateStat is set
CI_End_AlwaysSaves ==
    /\ pc = "ci_loop"
    /\ ci.i > Len(ci.idx)
    /\ pc' = "ci_create" /\ result' = result
    /\ UNCHANGED <<refs, indexFile, wt, objects, sparse, clock, cc, ci, pre>>

\* After the loop (lines 109-118): nothing more without UpdateStat
CI_End ==
    /\ pc = "ci_loop"
    /\ ci.i > Len(ci.idx)
    /\ IF ci.opts.UpdateStat
       THEN pc' = "ci_create" /\ result' = result
       ELSE CIReturn(Nil)
    /\ UNCHANGED <<refs, indexFile, wt, objects, sparse, clock, cc, ci, pre>>

\* c.GitDir.Create(File("index")), line 110: the index file is opened
\* truncated, or the open fails
CI_Create ==
    /\ pc = "ci_create"
    /\ \/ /\ indexFile' = [entries |-> <<>>, complete |-> FALSE]
          /\ pc' = "ci_write" /\ result' = result
       \/ /\ indexFile' = indexFile
          /\ pc' = "done" /\ result' = ErrRes("create index")
    /\ UNCHANGED <<refs, wt, objects, sparse, clock, cc, ci, pre>>

\* idx.WriteIndex(f), line 115: every entry is written, or the write fails
\* after k of them
CI_Write ==
    /\ pc = "ci_write"
    /\ \/ /\ indexFile' = IndexOf(ci.idx)
          /\ CIReturn(Nil)
       \/ \E k \in 0..Len(ci.idx) :
            /\ indexFile' = [entries |-> SubSeq(ci.idx, 1, k), complete |-> FALSE]
            /\ pc' = "done" /\ result' = ErrRes("write index")
    /\ UNCHANGED <<refs, wt, objects, sparse, clock, cc, ci, pre>>

\* CheckoutIndex entered by its caller's request (lines 38-51)
CI_Begin ==
    /\ pc = "ci_call"
    /\ LET s == CIStart(ci.opts, ci.files, "user")
       IN  IF s.ret /= NoResult
           THEN pc' = "done" /\ result' = s.ret /\ ci' = ci
           ELSE pc' = "ci_loop" /\ result' = result /\ ci' = s.locals
    /\ UNCHANGED <<refs, indexFile, wt, objects, sparse, clock, cc, pre>>

NextCI == CI_Begin \/ CI_Entry \/ CI_End \/ CI_Create \/ CI_Write

-----------------------------------------------------------------------------
(* The commits of the repository and their trees *)

Commits == {"c0", "c1", "c2", "c3"}

\* The tree of each commit: path -> digest of its blob, 0 where the tree has
\* no such path. c0 has the empty tree.
TreeOf(c) ==
    CASE c = "c0" -> [p \in Paths |-> 0]
      [] c = "c1" -> [p \in Paths |-> Sha1Of(<<1>>)]
      [] c = "c2" -> [p \in Paths |-> IF p = "README" THEN Sha1Of(<<2>>) ELSE Sha1Of(<<1>>)]
      [] c = "c3" -> [p \in Paths |-> IF p = "README" THEN Sha1Of(<<1>>) ELSE 0]

TreePaths(c) == {p \in Paths : TreeOf(c)[p] /= 0}

\* The names in S as a sequence in byte-wise order (sort.Sort(lsByPath(fs)))
NameOrder == <<"README", "notes.txt", "out-README", "out-notes.txt">>
RECURSIVE SortedNamesFrom(_, _)
SortedNamesFrom(k, S) ==
    IF k > Len(NameOrder) THEN <<>>
    ELSE IF NameOrder[k] \in S
         THEN <<NameOrder[k]>> \o SortedNamesFrom(k + 1, S)
         ELSE SortedNamesFrom(k + 1, S)
SortedNames(S) == SortedNamesFrom(1, S)

-----------------------------------------------------------------------------
(* LsFiles and the untracked scan: checkoutindex.go, package git *)

\* strings.HasPrefix(fAbs, eAbs+"/")
IsUnder(f, e) == Len(f) > Len(e) /\ SubSeq(f, 1, Len(e) + 1) = e \o "/"

\* findUntrackedFilesFromDir from the working directory, recursing, with no
\* ignore patterns: every file on disk that is not in tracked (lines 259-276)
FindUntracked(w, tracked) ==
    {f \in FileNames : Exists(w, f) /\ f /= ".git" /\ f \notin tracked}

\* Mutant of OthersKept: the equality test fAbs == eAbs is lost, only
\* descendants of a named path are kept
OthersKept_OnlyDescendants(f, files) ==
    IF Len(files) > 0
    THEN \E i \in 1..Len(files) : IsUnder(f, files[i])
    ELSE TRUE

\* The explicit-path filter LsFiles applies to the scan's results (lines
\* 509-528): applied only when the caller named files
OthersKept(f, files) ==
    IF Len(files) > 0
    THEN \E i \in 1..Len(files) : f = files[i] \/ IsUnder(f, files[i])
    ELSE TRUE

\* LsFiles(c, LsFilesOptions{Others: true}, files): the '?' results, sorted
LsFilesOthers(w, es, files) ==
    SortedNames({f \in FindUntracked(w, PathsOf(es)) : OthersKept(f, files)})

\* LsFiles' Modified classification of one entry (lines 439-465): the path
\* cannot be stat'd, or its content hashes to another digest
IsModified(w, e) == ~Exists(w, e.path) \/ HashFile(w, e.path) /= e.sha

-----------------------------------------------------------------------------
(* Collaborators of CheckoutCommit *)

\* LsTree(c, LsTreeOptions{Recurse: true}, cid, nil): the tree's files
LsTree(cid) == SortedNames(TreePaths(cid))

\* Commitish.CommitID: a branch resolves through its ref, a commit to itself
CommitID(r, x) ==
    IF x.kind \in {"branch", "symbolic"} THEN r.heads[x.name] ELSE x.id

\* DiffFiles(c, DiffFilesOptions{}, nil): the tracked paths whose working-tree
\* file differs from the index
DiffFiles(w, es) == SortedNames({es[i].path : i \in {j \in 1..Len(es) : IsModified(w, es[j])}})

\* DiffIndex(c, DiffIndexOptions{Cached: true}, nil, headtree, nil): the paths
\* whose index entry differs from HEAD's tree, with the staged side (a digest
\* of 0 for a path staged for deletion)
StagedSha(es, p) == IF p \in PathsOf(es) THEN EntryOf(es, p).sha ELSE 0
StagedMode(es, p) == IF p \in PathsOf(es) THEN EntryOf(es, p).mode ELSE 0
RECURSIVE DiffIndexFrom(_, _, _)
DiffIndexFrom(k, es, tree) ==
    IF k > Len(PathOrder) THEN <<>>
    ELSE LET p == PathOrder[k]
         IN  IF StagedSha(es, p) /= tree[p]
             THEN <<[Name |-> p, DstSha |-> StagedSha(es, p), DstMode |-> StagedMode(es, p)]>>
                  \o DiffIndexFrom(k + 1, es, tree)
             ELSE DiffIndexFrom(k + 1, es, tree)
DiffIndex(es, headtree) == DiffIndexFrom(1, es, TreeOf(headtree))

\* ReadTree(c, readtreeopts, cid): the tree as an in-memory index; entries the
\* sparse-checkout configuration excludes carry skip-worktree unless
\* NoSparseCheckout
ReadTree(noSparse, cid) ==
    SortedFrom(1, TreePaths(cid),
               [p \in Paths |-> IndexEntry(p, TreeOf(cid)[p], ModeRegular,
                                           ~noSparse /\ p \in sparse)])

\* Index.AddStage at Stage0: the entry replaces the one of its path or is
\* inserted in path order
AddStage(es, name, mode, sha) ==
    SortedFrom(1, PathsOf(es) \cup {name},
               [p \in Paths |-> IF p = name THEN IndexEntry(name, sha, mode, FALSE)
                                ELSE IF p \in PathsOf(es) THEN EntryOf(es, p)
                                ELSE IndexEntry(p, 0, 0, FALSE)])

\* IndexPath.IsClean: the file exists and hashes to the digest
IsClean(w, p, sha) == Exists(w, p) /\ HashFile(w, p) = sha

-----------------------------------------------------------------------------
(* CheckoutCommit: git/checkout.go *)

CheckoutOptions(force, branch, forceBranch, detach, ignoreSkip) ==
    [Force |-> force, Branch |-> branch, ForceBranch |-> forceBranch,
     Detach |-> detach, IgnoreSkipWorktreeBits |-> ignoreSkip]

ListErr(e, paths) == [kind |-> "err", err |-> e, paths |-> paths]

CCFail(res) == pc' = "done" /\ result' = res

\* Step 1, lines 126-137: -b names a branch that exists
CC_Branch ==
    /\ pc = "cc_call"
    /\ IF cc.opts.Branch /= "" /\ refs.heads[cc.opts.Branch] /= NoCommit
          /\ ~cc.opts.ForceBranch
       THEN CCFail(ErrRes("BranchAlreadyExists"))
       ELSE pc' = "cc_head" /\ result' = result
    /\ cc' = [cc EXCEPT !.step = 1]
    /\ UNCHANGED <<refs, indexFile, wt, objects, sparse, clock, ci, pre>>

\* Step 2, lines 138-150: HEAD as a branch, or the commit a detached HEAD is
\* at; the ref cannot be read
CC_Head ==
    /\ pc = "cc_head"
    /\ \/ /\ cc' = [cc EXCEPT !.step = 2,
                              !.head = IF refs.head.kind = "symbolic" THEN refs.head
                                       ELSE [kind |-> "commit", id |-> refs.head.id]]
          /\ pc' = "cc_target" /\ result' = result
       \/ /\ cc' = [cc EXCEPT !.step = 2]
          /\ CCFail(ErrRes("HEAD"))
    /\ UNCHANGED <<refs, indexFile, wt, objects, sparse, clock, ci, pre>>

\* Step 3, lines 152-156: the target's commit; it cannot be resolved
CC_Target ==
    /\ pc = "cc_target"
    /\ \/ /\ CommitID(refs, cc.commit) /= NoCommit
          /\ cc' = [cc EXCEPT !.step = 3, !.cid = CommitID(refs, cc.commit)]
          /\ pc' = "cc_untracked" /\ result' = result
       \/ /\ cc' = [cc EXCEPT !.step = 3]
          /\ CCFail(ErrRes("target"))
    /\ UNCHANGED <<refs, indexFile, wt, objects, sparse, clock, ci, pre>>

\* The untracked files the check of step 4 finds (lines 160-175)
UntrackedInTheWay(w, es, cid) == LsFilesOthers(w, es, LsTree(cid))

\* Mutant of CC_Untracked: the index file is opened for writing before the
\* check is made
CC_Untracked_IndexOpened ==
    /\ pc = "cc_untracked"
    /\ IF ~cc.opts.Force
          /\ Len(UntrackedInTheWay(wt, indexFile.entries, cc.cid)) > 0
       THEN CCFail(ListErr("WouldOverwriteUntracked",
                           UntrackedInTheWay(wt, indexFile.entries, cc.cid)))
       ELSE pc' = "cc_staged" /\ result' = result
    /\ indexFile' = [entries |-> <<>>, complete |-> FALSE]
    /\ cc' = [cc EXCEPT !.step = 4]
    /\ UNCHANGED <<refs, wt, objects, sparse, clock, ci, pre>>

\* Step 4, lines 158-184
CC_Untracked ==
    /\ pc = "cc_untracked"
    /\ IF ~cc.opts.Force
          /\ Len(UntrackedInTheWay(wt, indexFile.entries, cc.cid)) > 0
       THEN CCFail(ListErr("WouldOverwriteUntracked",
                           UntrackedInTheWay(wt, indexFile.entries, cc.cid)))
       ELSE pc' = "cc_staged" /\ result' = result
    /\ cc' = [cc EXCEPT !.step = 4]
    /\ UNCHANGED <<refs, indexFile, wt, objects, sparse, clock, ci, pre>>

\* Step 5, lines 197-205: the staged changes against HEAD; the diff fails
CC_Staged ==
    /\ pc = "cc_staged"
    /\ \/ /\ CommitID(refs, cc.head) /= NoCommit
          /\ cc' = [cc EXCEPT !.step = 5, !.stageddiffs =
                        DiffIndex(indexFile.entries, CommitID(refs, cc.head))]
          /\ pc' = "cc_modified" /\ result' = result
       \/ /\ cc' = [cc EXCEPT !.step = 5]
          /\ CCFail(ErrRes("staged diff"))
    /\ UNCHANGED <<refs, indexFile, wt, objects, sparse, clock, ci, pre>>

\* Mutant of CC_Modified: the test of opts.Force is inverted
CC_Modified_ForceInverted ==
    /\ pc = "cc_modified"
    /\ IF cc.opts.Force /\ Len(DiffFiles(wt, indexFile.entries)) > 0
       THEN CCFail(ListErr("WouldOverwriteLocalChanges", DiffFiles(wt, indexFile.entries)))
       ELSE pc' = "cc_readtree" /\ result' = result
    /\ cc' = [cc EXCEPT !.step = 6]
    /\ UNCHANGED <<refs, indexFile, wt, objects, sparse, clock, ci, pre>>

\* Step 6, lines 206-224
CC_Modified ==
    /\ pc = "cc_modified"
    /\ IF ~cc.opts.Force /\ Len(DiffFiles(wt, indexFile.entries)) > 0
       THEN CCFail(ListErr("WouldOverwriteLocalChanges", DiffFiles(wt, indexFile.entries)))
       ELSE pc' = "cc_readtree" /\ result' = result
    /\ cc' = [cc EXCEPT !.step = 6]
    /\ UNCHANGED <<refs, indexFile, wt, objects, sparse, clock, ci, pre>>

\* Step 7, lines 226-236: the old index kept, the target tree read
CC_ReadTree ==
    /\ pc = "cc_readtree"
    /\ cc' = [cc EXCEPT !.step = 7, !.origidx = indexFile.entries,
                        !.idx = ReadTree(cc.opts.IgnoreSkipWorktreeBits, cc.cid)]
    /\ pc' = "cc_newfiles"
    /\ UNCHANGED <<refs, indexFile, wt, objects, sparse, clock, ci, result, pre>>

\* The loop of step 8, lines 238-266, from entry k of the tree's entries objs:
\* [wt, idx, checkoutfiles] after it.
RECURSIVE NewFilesLoop(_, _, _, _, _, _, _)
NewFilesLoop(k, objs, w, idx, files, opts, staged) ==
    IF k > Len(objs) THEN [wt |-> w, idx |-> idx, checkoutfiles |-> files]
    ELSE LET obj == objs[k]
         IN  IF obj.skip /\ ~opts.IgnoreSkipWorktreeBits
             THEN NewFilesLoop(k + 1, objs, Remove(w, obj.path), idx, files, opts, staged)
             ELSE IF opts.Force
             THEN NewFilesLoop(k + 1, objs, w, idx, files, opts, staged)
             ELSE IF Len(staged) > 0
             THEN NewFilesLoop(k + 1, objs, w,
                               AddStage(idx, staged[1].Name, staged[1].DstMode,
                                        staged[1].DstSha),
                               files, opts, staged)
             ELSE NewFilesLoop(k + 1, objs, w, idx, Append(files, obj.path), opts, staged)

\* Step 8
CC_NewFiles ==
    /\ pc = "cc_newfiles"
    /\ LET r == NewFilesLoop(1, cc.idx, wt, cc.idx, <<>>, cc.opts, cc.stageddiffs)
       IN  /\ wt' = r.wt
           /\ cc' = [cc EXCEPT !.step = 8, !.idx = r.idx,
                               !.checkoutfiles = r.checkoutfiles]
    /\ pc' = "cc_create"
    /\ UNCHANGED <<refs, indexFile, objects, sparse, clock, ci, result, pre>>

\* Step 9, c.GitDir.Create("index"), lines 268-272: the index file is opened
\* truncated, or the open fails
CC_Create ==
    /\ pc = "cc_create"
    /\ \/ /\ indexFile' = [entries |-> <<>>, complete |-> FALSE]
          /\ pc' = "cc_write" /\ result' = result
       \/ /\ indexFile' = indexFile
          /\ CCFail(ErrRes("create index"))
    /\ cc' = [cc EXCEPT !.step = 9]
    /\ UNCHANGED <<refs, wt, objects, sparse, clock, ci, pre>>

\* Mutant of CC_Write: the index is not written before the working tree is
\* updated
CC_Write_Skipped ==
    /\ pc = "cc_write"
    /\ pc' = "cc_delete"
    /\ UNCHANGED <<refs, indexFile, wt, objects, sparse, clock, cc, ci, result, pre>>

\* Step 9, idx.WriteIndex(f), lines 274-276: every entry is written, or the
\* write fails after k of them
CC_Write ==
    /\ pc = "cc_write"
    /\ \/ /\ indexFile' = IndexOf(cc.idx)
          /\ cc' = [cc EXCEPT !.indexWritten = TRUE]
          /\ pc' = "cc_delete" /\ result' = result
       \/ \E k \in 0..Len(cc.idx) :
            /\ indexFile' = [entries |-> SubSeq(cc.idx, 1, k), complete |-> FALSE]
            /\ cc' = cc
            /\ CCFail(ErrRes("write index"))
    /\ UNCHANGED <<refs, wt, objects, sparse, clock, ci, pre>>

\* Mutant of DeletesOld: the IsClean test is lost
DeletesOld_Unchecked(w, newidx, obj) ==
    obj.path \notin PathsOf(newidx) /\ Exists(w, obj.path)

\* Whether step 10 deletes the file of the old entry obj (lines 281-282)
DeletesOld(w, newidx, obj) ==
    obj.path \notin PathsOf(newidx) /\ IsClean(w, obj.path, obj.sha)

\* The loop of step 10, lines 278-292
RECURSIVE DeleteOldLoop(_, _, _, _)
DeleteOldLoop(k, orig, newidx, w) ==
    IF k > Len(orig) THEN w
    ELSE DeleteOldLoop(k + 1, orig, newidx,
                       IF DeletesOld(w, newidx, orig[k]) THEN Remove(w, orig[k].path) ELSE w)

\* Step 10
CC_Delete ==
    /\ pc = "cc_delete"
    /\ wt' = DeleteOldLoop(1, cc.origidx, cc.idx, wt)
    /\ pc' = "cc_checkout"
    /\ cc' = [cc EXCEPT !.step = 10]
    /\ UNCHANGED <<refs, indexFile, objects, sparse, clock, ci, result, pre>>

\* Mutant of CC_Checkout: HEAD is set to the target commit before the files
\* are checked out
CC_Checkout_HeadMovedFirst ==
    /\ pc = "cc_checkout"
    /\ LET s == CIStart(CheckoutIndexOptions(TRUE, TRUE, FALSE, FALSE, ""),
                        cc.checkoutfiles, "CheckoutCommit")
       IN  IF s.ret /= NoResult
           THEN CCFail(s.ret) /\ ci' = ci
           ELSE pc' = "ci_loop" /\ result' = result /\ ci' = s.locals
    /\ refs' = [refs EXCEPT !.head = [kind |-> "detached", id |-> cc.cid]]
    /\ cc' = [cc EXCEPT !.step = 11]
    /\ UNCHANGED <<indexFile, wt, objects, sparse, clock, pre>>

\* Step 11, line 295: CheckoutIndex over the files marked in step 8
CC_Checkout ==
    /\ pc = "cc_checkout"
    /\ LET s == CIStart(CheckoutIndexOptions(TRUE, TRUE, FALSE, FALSE, ""),
                        cc.checkoutfiles, "CheckoutCommit")
       IN  IF s.ret /= NoResult
           THEN CCFail(s.ret) /\ ci' = ci
           ELSE pc' = "ci_loop" /\ result' = result /\ ci' = s.locals
    /\ cc' = [cc EXCEPT !.step = 11]
    /\ UNCHANGED <<refs, indexFile, wt, objects, sparse, clock, pre>>

\* UpdateRef's test of UpdateRefOptions.OldValue against HEAD (NoDeref): HEAD
\* is still the branch, or still at the commit, that old names
HeadIs(r, old) ==
    IF r.head.kind = "symbolic" THEN old = r.head
    ELSE old = [kind |-> "commit", id |-> r.head.id]

\* Mutant of CC_Refs: -b moves HEAD to the branch without creating it
CC_Refs_BranchNotCreated ==
    /\ pc = "cc_refs"
    /\ IF cc.opts.Branch /= ""
       THEN /\ refs' = [refs EXCEPT !.head = [kind |-> "symbolic", name |-> cc.opts.Branch]]
            /\ result' = Nil
       ELSE IF cc.commit.kind = "branch" /\ ~cc.opts.Detach
       THEN /\ refs' = [refs EXCEPT !.head = [kind |-> "symbolic", name |-> cc.commit.name]]
            /\ result' = Nil
       ELSE IF HeadIs(refs, cc.head)
       THEN /\ refs' = [refs EXCEPT !.head = [kind |-> "detached", id |-> cc.cid]]
            /\ result' = Nil
       ELSE /\ refs' = refs
            /\ result' = ErrRes("RefUpdateConflict")
    /\ pc' = "done"
    /\ cc' = [cc EXCEPT !.step = 12]
    /\ UNCHANGED <<indexFile, wt, objects, sparse, clock, ci, pre>>

\* Mutant of CC_Refs: UpdateRef is called without OldValue
CC_Refs_NoOldValue ==
    /\ pc = "cc_refs"
    /\ IF cc.opts.Branch /= ""
       THEN refs' = [head |-> [kind |-> "symbolic", name |-> cc.opts.Branch],
                     heads |-> [refs.heads EXCEPT ![cc.opts.Branch] = cc.cid]]
       ELSE IF cc.commit.kind = "branch" /\ ~cc.opts.Detach
       THEN refs' = [refs EXCEPT !.head = [kind |-> "symbolic", name |-> cc.commit.name]]
       ELSE refs' = [refs EXCEPT !.head = [kind |-> "detached", id |-> cc.cid]]
    /\ pc' = "done"
    /\ result' = Nil
    /\ cc' = [cc EXCEPT !.step = 12]
    /\ UNCHANGED <<indexFile, wt, objects, sparse, clock, ci, pre>>

\* Steps 12-15, lines 298-328: the one move of HEAD. -b creates the branch
\* at the target and moves HEAD to it (310-316); a branch as the target, not
\* detached, moves HEAD to it (317-322); otherwise HEAD is set to the commit,
\* provided it is still what step 2 read (323-326).
CC_Refs ==
    /\ pc = "cc_refs"
    /\ IF cc.opts.Branch /= ""
       THEN /\ refs' = [head |-> [kind |-> "symbolic", name |-> cc.opts.Branch],
                        heads |-> [refs.heads EXCEPT ![cc.opts.Branch] = cc.cid]]
            /\ result' = Nil
       ELSE IF cc.commit.kind = "branch" /\ ~cc.opts.Detach
       THEN /\ refs' = [refs EXCEPT !.head = [kind |-> "symbolic", name |-> cc.commit.name]]
            /\ result' = Nil
       ELSE IF HeadIs(refs, cc.head)
       THEN /\ refs' = [refs EXCEPT !.head = [kind |-> "detached", id |-> cc.cid]]
            /\ result' = Nil
       ELSE /\ refs' = refs
            /\ result' = ErrRes("RefUpdateConflict")
    /\ pc' = "done"
    /\ cc' = [cc EXCEPT !.step = 12]
    /\ UNCHANGED <<indexFile, wt, objects, sparse, clock, ci, pre>>

\* Another writer of the repository moves HEAD while CheckoutCommit is
\* between its read of HEAD (step 2) and its move of HEAD
OtherWriter ==
    /\ pc \in {"cc_target", "cc_untracked", "cc_staged", "cc_modified", "cc_readtree",
               "cc_newfiles", "cc_create", "cc_write", "cc_delete", "cc_checkout",
               "ci_loop", "ci_create", "ci_write", "cc_refs"}
    /\ cc /= NoLocals
    /\ refs = pre.refs
    /\ \E h \in {[kind |-> "detached", id |-> "c2"], [kind |-> "detached", id |-> "c3"],
                  [kind |-> "symbolic", name |-> "main"]} \ {refs.head} :
          refs' = [refs EXCEPT !.head = h]
    /\ UNCHANGED <<indexFile, wt, objects, sparse, clock, pc, cc, ci, result, pre>>

NextCC ==
    \/ CC_Branch \/ CC_Head \/ CC_Target \/ CC_Untracked \/ CC_Staged
    \/ CC_Modified \/ CC_ReadTree \/ CC_NewFiles \/ CC_Create \/ CC_Write
    \/ CC_Delete \/ CC_Checkout \/ CC_Refs
    \/ CI_Entry \/ CI_End \/ CI_Create \/ CI_Write

Next == NextCC \/ CI_Begin

-----------------------------------------------------------------------------
(* The states an operation is called in *)

\* Every index over Paths with digests of the contents in scope: sorted by
\* path, one stage-0 entry per path.
Indexes ==
    {IndexOf(SortedFrom(1, {p \in Paths : sh[p] /= 0},
                        [p \in Paths |-> IndexEntry(p, sh[p], ModeRegular, FALSE)])) :
        sh \in [Paths -> Sha1 \cup {0}]}

\* A working-tree file written before the call
OldFiles == {FileOf(c, ModeRegular, 0) : c \in FileContents}

\* Working trees: any files at the tracked paths; at the names in names, no
\* file or a file of the first content
WorkTrees(names) ==
    {[f \in FileNames |-> IF f \in Paths THEN w[f]
                          ELSE IF f \in names /\ x[f] THEN FileOf(<<1>>, ModeRegular, 0)
                          ELSE NoFile] :
        w \in [Paths -> OldFiles \cup {NoFile}], x \in [FileNames \ Paths -> BOOLEAN]}

\* The store holding every blob in scope soundly
SoundStore == [s \in Sha1 |-> SoundBlob(CHOOSE c \in FileContents : Sha1Of(c) = s)]

\* Ways a stored blob with content c goes wrong: missing, packed only, not a
\* blob, a size field that differs from the content length
BadObjects(c) ==
    {Absent, Packed, Loose(TRUE, Stream("tree ", Len(c), TRUE, c)),
     Loose(TRUE, Stream("blob ", Len(c) + 1, TRUE, c))}

\* Stores with at most one object gone wrong (the blob of content <<1>>)
Stores ==
    {SoundStore} \cup {[SoundStore EXCEPT ![Sha1Of(<<1>>)] = b] : b \in BadObjects(<<1>>)}

DefaultRefs == [head |-> [kind |-> "symbolic", name |-> "main"],
                heads |-> [b \in {"main", "dev"} |-> IF b = "main" THEN "c1" ELSE NoCommit]]

\* Requests of checkout-index: duplicate-free path lists in index order
FileLists == {<<>>, <<"README">>, <<"notes.txt">>, <<"README", "notes.txt">>}

CIRequests ==
    {[opts |-> CheckoutIndexOptions(u, f, a, n, pfx), files |-> fl,
      idx |-> <<>>, i |-> 0, caller |-> "user"] :
        u \in BOOLEAN, f \in BOOLEAN, a \in BOOLEAN, n \in BOOLEAN,
        pfx \in Prefixes, fl \in FileLists}

InitCI ==
    /\ refs = DefaultRefs
    /\ sparse = {}
    /\ clock = 1
    /\ indexFile \in Indexes
    /\ objects \in Stores
    /\ ci \in CIRequests
    /\ wt \in WorkTrees(IF ci.opts.Prefix = "" THEN {} ELSE FileNames)
    /\ pc = "ci_call"
    /\ cc = NoLocals
    /\ result = NoResult
    /\ pre = [indexFile |-> indexFile, wt |-> wt, refs |-> refs]

SpecCI == InitCI /\ [][NextCI]_vars

\* CheckoutIndex on an index with a path in a directory: README and src/x.c.
\* The working trees: src absent, a plain file or a directory; src/x.c, when
\* src is a directory, absent, a file or a directory.
NestedIndexes ==
    {IndexOf(SelectSeq(<<IndexEntry("README", sh[1], ModeRegular, FALSE),
                         IndexEntry("src/x.c", sh[2], ModeRegular, FALSE)>>,
                       LAMBDA e : e.sha /= 0)) :
        sh \in [1..2 -> Sha1 \cup {0}]}

NestedWorkTrees ==
    {[f \in {"README", "src", "src/x.c"} |->
        IF f = "README" THEN r ELSE IF f = "src" THEN d[1] ELSE d[2]] :
        r \in OldFiles \cup {NoFile},
        d \in ({NoFile} \X {NoFile}) \cup (OldFiles \X {NoFile})
               \cup ({Dir} \X (OldFiles \cup {NoFile, Dir}))}

NestedRequests ==
    {[opts |-> CheckoutIndexOptions(u, f, a, n, ""), files |-> fl,
      idx |-> <<>>, i |-> 0, caller |-> "user"] :
        u \in BOOLEAN, f \in BOOLEAN, a \in BOOLEAN, n \in BOOLEAN,
        fl \in {<<>>, <<"README">>, <<"src/x.c">>, <<"README", "src/x.c">>}}

InitNested ==
    /\ refs = DefaultRefs
    /\ sparse = {}
    /\ clock = 1
    /\ indexFile \in NestedIndexes
    /\ objects = SoundStore
    /\ ci \in NestedRequests
    /\ wt \in NestedWorkTrees
    /\ pc = "ci_call"
    /\ cc = NoLocals
    /\ result = NoResult
    /\ pre = [indexFile |-> indexFile, wt |-> wt, refs |-> refs]

SpecNested == InitNested /\ [][NextCI]_vars

\* CheckoutIndex where permission bits differ: entries of either mode over
\* the first content, files on disk with either permission
ModeIndexes ==
    {IndexOf(SortedFrom(1, {p \in Paths : md[p] /= 0},
                        [p \in Paths |-> IndexEntry(p, Sha1Of(<<1>>), md[p], FALSE)])) :
        md \in [Paths -> {0, ModeRegular, ModeExec}]}

ModeWorkTrees ==
    {[f \in FileNames |-> IF f \in Paths THEN w[f]
                          ELSE IF x[f] THEN FileOf(<<1>>, ModeRegular, 0)
                          ELSE NoFile] :
        w \in [Paths -> {NoFile, FileOf(<<1>>, ModeRegular, 0), FileOf(<<1>>, ModeExec, 0)}],
        x \in [FileNames \ Paths -> BOOLEAN]}

InitModes ==
    /\ refs = DefaultRefs
    /\ sparse = {}
    /\ clock = 1
    /\ indexFile \in ModeIndexes
    /\ objects = SoundStore
    /\ ci \in CIRequests
    /\ wt \in ModeWorkTrees
    /\ pc = "ci_call"
    /\ cc = NoLocals
    /\ result = NoResult
    /\ pre = [indexFile |-> indexFile, wt |-> wt, refs |-> refs]

SpecModes == InitModes /\ [][NextCI]_vars

\* Requests of checkout: -b with a new name, with the current branch's name
\* (also forced); a commit or the branch main as the target
BranchOpts == {<<"", FALSE>>, <<"dev", FALSE>>, <<"main", FALSE>>, <<"main", TRUE>>}
Targets ==
    {[commit |-> [kind |-> "commit", id |-> c], detach |-> FALSE] : c \in Commits}
    \cup {[commit |-> [kind |-> "branch", name |-> "main"], detach |-> d] : d \in BOOLEAN}

CCRequests ==
    {[opts |-> CheckoutOptions(f, b[1], b[2], t.detach, ign), commit |-> t.commit,
      head |-> NoLocals, cid |-> NoCommit, stageddiffs |-> <<>>, origidx |-> <<>>,
      idx |-> <<>>, checkoutfiles |-> <<>>, indexWritten |-> FALSE, step |-> 0] :
        f \in BOOLEAN, b \in BranchOpts, t \in Targets, ign \in BOOLEAN}

\* HEAD on main or detached, at a commit with both paths or with one
HeadStates ==
    {[head |-> h, heads |-> [b \in {"main", "dev"} |-> IF b = "main" THEN c ELSE NoCommit]] :
        h \in {[kind |-> "symbolic", name |-> "main"]}, c \in {"c1", "c3"}}
    \cup
    {[head |-> [kind |-> "detached", id |-> c],
      heads |-> [b \in {"main", "dev"} |-> IF b = "main" THEN "c1" ELSE NoCommit]] :
        c \in {"c1", "c3"}}

InitCC ==
    /\ refs \in HeadStates
    /\ sparse \in {{}, {"notes.txt"}}
    /\ clock = 1
    /\ indexFile \in Indexes
    /\ objects = SoundStore
    /\ wt \in WorkTrees({})
    /\ cc \in CCRequests
    /\ pc = "cc_call"
    /\ ci = NoLocals
    /\ result = NoResult
    /\ pre = [indexFile |-> indexFile, wt |-> wt, refs |-> refs]

SpecCC == InitCC /\ [][NextCC]_vars

\* CheckoutCommit with another writer of HEAD, from a working tree that is
\* clean against an index of both paths
InitRefs ==
    /\ refs \in HeadStates
    /\ sparse = {}
    /\ clock = 1
    /\ indexFile = IndexOf(ReadTree(TRUE, "c1"))
    /\ objects = SoundStore
    /\ wt = [f \in FileNames |-> IF f \in Paths THEN FileOf(<<1>>, ModeRegular, 0)
                                 ELSE NoFile]
    /\ cc \in CCRequests
    /\ pc = "cc_call"
    /\ ci = NoLocals
    /\ result = NoResult
    /\ pre = [indexFile |-> indexFile, wt |-> wt, refs |-> refs]

NextRefs == NextCC \/ OtherWriter

SpecRefs == InitRefs /\ [][NextRefs]_vars

Init == InitCC \/ InitCI

Spec == Init /\ [][Next]_vars

-----------------------------------------------------------------------------
(* LsFiles with Killed on a working tree with directories: checkoutindex.go *)

\* The names of that working tree, in byte-wise order; the paths an index
\* over it tracks
DeepOrder == <<"a", "a/b", "a/b/c.txt", "a/d.txt", "e.txt">>
DeepNames == {DeepOrder[i] : i \in 1..Len(DeepOrder)}
DeepPaths == <<"a/b/c.txt", "a/d.txt", "e.txt">>

EndsInSlash(p) == Len(p) > 0 /\ SubSeq(p, Len(p), Len(p)) = "/"

\* filepath.Clean on the paths the walk meets: a trailing "/" is dropped and
\* the empty path becomes "."
Clean(p) ==
    IF p = "" THEN "."
    ELSE IF Len(p) > 1 /\ EndsInSlash(p) THEN SubSeq(p, 1, Len(p) - 1)
    ELSE p

\* path.Dir: the path without its last element, "." when it has one element
PathDir(p) == IF LastSlash(p) = 0 THEN "." ELSE Clean(SubSeq(p, 1, LastSlash(p)))

\* The directory half of filepath.Split: everything up to and with the last "/"
SplitDir(p) == SubSeq(p, 1, LastSlash(p))

\* The stat behind File.IsDir and File.Exists: ENOTDIR when a plain file
\* stands where the path needs a directory (above it, or at a path that ends
\* in "/"), else what is at the path
NotDir == [error |-> "ENOTDIR"]
Stat(w, p) ==
    IF \/ \E q \in DOMAIN w : IsUnder(Clean(p), q) /\ Exists(w, q) /\ ~IsDir(w, q)
       \/ EndsInSlash(p) /\ Exists(w, Clean(p)) /\ ~IsDir(w, Clean(p))
    THEN NotDir
    ELSE w[Clean(p)]

\* File.IsDir: the stat succeeds on a directory
FileIsDir(w, p) == Stat(w, p) = Dir

\* File.Exists: the stat succeeds or, for an implementation that tests
\* os.IsNotExist, fails with another error than ENOENT
FileExists(w, p, notDirExists) ==
    IF Stat(w, p) = NotDir THEN notDirExists ELSE Stat(w, p) /= NoFile

\* File.IndexPath of a path given relative to the root of the working tree
IndexPath(p) == Clean(p)

StatusEntry(path, status) == [path |-> path, status |-> status]

\* The loop of lines 357-377 from pathparent on: the paths it reports
RECURSIVE KilledWalk(_, _, _)
KilledWalk(w, pathparent, notDirExists) ==
    IF pathparent = "" \/ pathparent = "." THEN <<>>
    ELSE IF FileIsDir(w, pathparent) THEN <<>>
    ELSE (IF FileExists(w, pathparent, notDirExists)
          THEN <<IndexPath(pathparent)>> ELSE <<>>)
         \o KilledWalk(w, SplitDir(Clean(pathparent)), notDirExists)

\* Lines 351-388 for one entry: the walk from path.Dir(f), then f itself
\* when it is a directory
KilledOf(w, path, notDirExists) ==
    KilledWalk(w, Clean(PathDir(path)), notDirExists)
        \o (IF FileIsDir(w, path) THEN <<path>> ELSE <<>>)

RECURSIVE KilledOfAll(_, _, _)
KilledOfAll(w, es, notDirExists) ==
    IF es = <<>> THEN <<>>
    ELSE KilledOf(w, Head(es).path, notDirExists)
         \o KilledOfAll(w, Tail(es), notDirExists)

Occurrences(seq, x) == Cardinality({i \in 1..Len(seq) : seq[i] = x})

\* sort.Sort(lsByPath(fs)) of results that all carry the status st
RECURSIVE SortedByPath(_, _, _, _)
SortedByPath(k, order, seq, st) ==
    IF k > Len(order) THEN <<>>
    ELSE [i \in 1..Occurrences(seq, order[k]) |-> StatusEntry(order[k], st)]
         \o SortedByPath(k + 1, order, seq, st)

\* LsFiles(c, LsFilesOptions{Killed: true}, nil)
LsFilesKilled(w, es, notDirExists) ==
    SortedByPath(1, DeepOrder, KilledOfAll(w, es, notDirExists), "K")

LsResult(entries) == [kind |-> "ls", entries |-> entries]

LS_Killed ==
    /\ pc = "ls_killed"
    /\ result' = LsResult(LsFilesKilled(wt, indexFile.entries, ci.notDirExists))
    /\ pc' = "done"
    /\ UNCHANGED <<refs, indexFile, wt, objects, sparse, clock, cc, ci, pre>>

\* Working trees over DeepNames: a name exists only in a directory
DeepNodes == {NoFile, Dir, FileOf(<<1>>, ModeRegular, 0)}
DeepWorkTrees ==
    {w \in [DeepNames -> DeepNodes] :
        \A n \in DeepNames :
            (w[n] /= NoFile /\ ParentOf(n) /= "") => w[ParentOf(n)] = Dir}

DeepIndexes ==
    {IndexOf(SelectSeq([i \in 1..Len(DeepPaths) |->
                           IndexEntry(DeepPaths[i], IF i \in S THEN Sha1Of(<<1>>) ELSE 0,
                                      ModeRegular, FALSE)],
                       LAMBDA e : e.sha /= 0)) :
        S \in SUBSET (1..Len(DeepPaths))}

InitKilled ==
    /\ refs = DefaultRefs
    /\ sparse = {}
    /\ clock = 1
    /\ indexFile \in DeepIndexes
    /\ objects = SoundStore
    /\ wt \in DeepWorkTrees
    /\ cc = NoLocals
    /\ ci \in [caller : {"ls"}, notDirExists : BOOLEAN]
    /\ pc = "ls_killed"
    /\ result = NoResult
    /\ pre = [indexFile |-> indexFile, wt |-> wt, refs |-> refs]

SpecKilled == InitKilled /\ [][LS_Killed]_vars

-----------------------------------------------------------------------------
(* LsFiles with Others and ExcludePatterns: checkoutindex.go *)

\* The names of the scanned working tree, in byte-wise order
OthersOrder == <<"debug.log", "keep.log", "notes.txt", "tmp", "tmp/x.log">>
OthersNames == {OthersOrder[i] : i \in 1..Len(OthersOrder)}

\* The exclude patterns a caller passes, and how many of them
PatternTexts == {"*.log", "!keep.log", "tmp/"}
MaxPatterns == 2
PatternLists == UNION {[1..n -> PatternTexts] : n \in 0..MaxPatterns}

\* An IgnorePattern's parts: a leading "!" re-includes, a trailing "/" limits
\* the pattern to directories, the rest is the glob
Negated(pattern) == Len(pattern) > 0 /\ SubSeq(pattern, 1, 1) = "!"
DirOnly(pattern) == EndsInSlash(pattern)
Glob(pattern) ==
    SubSeq(pattern, IF Negated(pattern) THEN 2 ELSE 1,
                    IF DirOnly(pattern) THEN Len(pattern) - 1 ELSE Len(pattern))

\* The last element of a path
BaseName(name) == SubSeq(name, LastSlash(name) + 1, Len(name))

\* A glob without "/" is matched against the last element of the path; a
\* leading "*" stands for any beginning
GlobMatches(glob, name) ==
    IF Len(glob) > 0 /\ SubSeq(glob, 1, 1) = "*"
    THEN LET suffix == SubSeq(glob, 2, Len(glob))
             base   == BaseName(name)
         IN  /\ Len(base) >= Len(suffix)
             /\ SubSeq(base, Len(base) - Len(suffix) + 1, Len(base)) = suffix
    ELSE BaseName(name) = glob

\* IgnorePattern.Matches: the pattern's glob matches the path
Matches(pattern, name, isDir) ==
    (DirOnly(pattern) => isDir) /\ GlobMatches(Glob(pattern), name)

\* The loop of lines 200-211 over ignorePatterns: continue files at the
\* first pattern that matches
ScanSkips(patterns, name, isDir) ==
    \E i \in 1..Len(patterns) : Matches(patterns[i], name, isDir)

\* strings.HasPrefix
HasPrefix(str, prefix) ==
    Len(str) >= Len(prefix) /\ SubSeq(str, 1, Len(prefix)) = prefix

\* Lines 225-231: some tracked path begins with the directory's path
DirHasTracked(tracked, indexPath) == \E path \in tracked : HasPrefix(path, indexPath)

\* findUntrackedFilesFromDir: the files loop from the k-th name of order
\* (the names of the working tree, as ioutil.ReadDir sorts them) on, over the
\* names that are in directory parent. Without recursedir (opts.Directory is
\* then set, opts.NoEmptyDirectory is not) a directory that has no tracked
\* path is reported itself, with "/" appended.
RECURSIVE findUntrackedFilesFromDir(_, _, _, _, _, _, _)
findUntrackedFilesFromDir(w, order, k, parent, tracked, recursedir, ignorePatterns) ==
    IF k > Len(order) THEN <<>>
    ELSE LET fname == order[k]
         IN  (IF ParentOf(fname) /= parent \/ ~Exists(w, fname) THEN <<>>
              ELSE IF ScanSkips(ignorePatterns, fname, IsDir(w, fname)) THEN <<>>
              ELSE IF IsDir(w, fname)
                   THEN IF ~recursedir /\ ~DirHasTracked(tracked, fname)
                        THEN <<fname \o "/">>
                        ELSE findUntrackedFilesFromDir(w, order, 1, fname, tracked,
                                                       recursedir, ignorePatterns)
              ELSE IF fname \notin tracked THEN <<fname>>
              ELSE <<>>)
             \o findUntrackedFilesFromDir(w, order, k + 1, parent, tracked,
                                          recursedir, ignorePatterns)

\* LsFiles(c, LsFilesOptions{Others: true, ExcludePatterns: patterns}, files)
LsFilesOthersExcluding(w, es, files, patterns) ==
    SortedByPath(1, OthersOrder,
                 SelectSeq(findUntrackedFilesFromDir(w, OthersOrder, 1, "", PathsOf(es),
                                                     TRUE, patterns),
                           LAMBDA f : OthersKept(f, files)),
                 "?")

LS_Others ==
    /\ pc = "ls_others"
    /\ result' = LsResult(LsFilesOthersExcluding(wt, indexFile.entries, <<>>, ci.patterns))
    /\ pc' = "done"
    /\ UNCHANGED <<refs, indexFile, wt, objects, sparse, clock, cc, ci, pre>>

OthersWorkTrees ==
    {w \in [OthersNames -> DeepNodes] :
        /\ w["debug.log"] /= Dir /\ w["keep.log"] /= Dir /\ w["notes.txt"] /= Dir
        /\ w["tmp/x.log"] /= Dir
        /\ w["tmp/x.log"] /= NoFile => w["tmp"] = Dir}

OthersIndexes ==
    {IndexOf(<<>>), IndexOf(<<IndexEntry("notes.txt", Sha1Of(<<1>>), ModeRegular, FALSE)>>)}

InitOthers ==
    /\ refs = DefaultRefs
    /\ sparse = {}
    /\ clock = 1
    /\ indexFile \in OthersIndexes
    /\ objects = SoundStore
    /\ wt \in OthersWorkTrees
    /\ cc = NoLocals
    /\ ci \in [caller : {"ls"}, patterns : PatternLists]
    /\ pc = "ls_others"
    /\ result = NoResult
    /\ pre = [indexFile |-> indexFile, wt |-> wt, refs |-> refs]

SpecOthers == InitOthers /\ [][LS_Others]_vars

-----------------------------------------------------------------------------
(* LsFiles, every mode, with explicit paths: checkoutindex.go *)

\* The names of the working tree LsFiles is run on, as ioutil.ReadDir sorts
\* them; the paths an index over it tracks; the paths of results in the
\* order of lsByPath (a directory reported by the scan ends in "/")
LsOrder == <<"a", "a.txt", "a/b", "a/b/c.txt", "a/d.txt", "e.txt">>
LsNames == {LsOrder[i] : i \in 1..Len(LsOrder)}
LsPaths == <<"a.txt", "a/b/c.txt", "a/d.txt", "e.txt">>
LsResultOrder ==
    <<"a", "a.txt", "a/", "a/b", "a/b/", "a/b/c.txt", "a/b/c.txt/", "a/d.txt",
      "a/d.txt/", "e.txt">>

LsFilesOptions(cached, deleted, modified, others, unmerged, killed, directory) ==
    [Cached |-> cached, Deleted |-> deleted, Modified |-> modified, Others |-> others,
     Unmerged |-> unmerged, Killed |-> killed, Directory |-> directory]

\* File.MatchGlob: "*" stands for any run of characters other than "/"
MatchGlob(f, pattern) ==
    IF Len(pattern) > 0 /\ SubSeq(pattern, 1, 1) = "*"
    THEN LET suffix == SubSeq(pattern, 2, Len(pattern))
         IN  /\ LastSlash(f) = 0
             /\ Len(f) >= Len(suffix)
             /\ SubSeq(f, Len(f) - Len(suffix) + 1, Len(f)) = suffix
    ELSE f = pattern

\* The explicit-path filter on index entries, lines 394-415
EntryKept(f, files) ==
    IF Len(files) > 0
    THEN \E i \in 1..Len(files) :
            f = files[i] \/ IsUnder(f, files[i]) \/ MatchGlob(f, files[i])
    ELSE TRUE

\* The Modified test of lines 439-465 on a working tree with directories
LsModified(w, e) ==
    \/ FileIsDir(w, e.path)
    \/ Stat(w, e.path) \in {NoFile, NotDir}
    \/ HashFile(w, e.path) /= e.sha

\* The body of the loop over index.Objects for one entry, lines 346-466
LsEntry(w, e, opt, files, notDirExists) ==
    (IF opt.Killed
     THEN LET killed == KilledOf(w, e.path, notDirExists)
          IN  [i \in 1..Len(killed) |-> StatusEntry(killed[i], "K")]
     ELSE <<>>)
    \o (IF ~EntryKept(e.path, files) THEN <<>>
        ELSE IF opt.Cached THEN <<StatusEntry(e.path, IF e.skip THEN "S" ELSE "H")>>
        ELSE IF opt.Deleted /\ ~FileExists(w, e.path, notDirExists)
             THEN <<StatusEntry(e.path, "R")>>
        ELSE IF opt.Unmerged /\ e.stage /= 0 THEN <<StatusEntry(e.path, "M")>>
        ELSE IF opt.Modified /\ LsModified(w, e) THEN <<StatusEntry(e.path, "C")>>
        ELSE <<>>)

RECURSIVE LsEntries(_, _, _, _, _)
LsEntries(w, es, opt, files, notDirExists) ==
    IF es = <<>> THEN <<>>
    ELSE LsEntry(w, Head(es), opt, files, notDirExists)
         \o LsEntries(w, Tail(es), opt, files, notDirExists)

\* Lines 483-530: the scan's results that pass the filter on untracked files
LsOthers(w, es, opt, files) ==
    LET others == findUntrackedFilesFromDir(w, LsOrder, 1, "", PathsOf(es),
                                            ~opt.Directory, <<>>)
        kept   == SelectSeq(others, LAMBDA f : OthersKept(Clean(f), files))
    IN  [i \in 1..Len(kept) |-> StatusEntry(kept[i], "?")]

\* sort.Sort(lsByPath(fs)); results of one path stay in the order they were
\* appended in
RECURSIVE SortedResults(_, _, _)
SortedResults(k, order, fs) ==
    IF k > Len(order) THEN <<>>
    ELSE SelectSeq(fs, LAMBDA r : r.path = order[k]) \o SortedResults(k + 1, order, fs)

\* LsFiles(c, opt, files)
LsFiles(w, es, opt, files, notDirExists) ==
    SortedResults(1, LsResultOrder,
                  LsEntries(w, es, opt, files, notDirExists)
                      \o (IF opt.Others THEN LsOthers(w, es, opt, files) ELSE <<>>))

LS_Call ==
    /\ pc = "ls_call"
    /\ result' = LsResult(LsFiles(wt, indexFile.entries, ci.opt, ci.files, ci.notDirExists))
    /\ pc' = "done"
    /\ UNCHANGED <<refs, indexFile, wt, objects, sparse, clock, cc, ci, pre>>

\* Working trees over LsNames: a name exists only in a directory, a.txt and
\* e.txt are no directories
LsWorkTrees ==
    {w \in [LsNames -> DeepNodes] :
        /\ w["a.txt"] /= Dir /\ w["e.txt"] /= Dir
        /\ \A n \in LsNames :
              (w[n] /= NoFile /\ ParentOf(n) /= "") => w[ParentOf(n)] = Dir}

\* Indexes over LsPaths: any of the paths, e.txt also with the skip-worktree
\* bit or at stage 2
LsIndexes ==
    {IndexOf(SelectSeq([i \in 1..Len(LsPaths) |->
                           [IndexEntry(LsPaths[i], IF i \in S THEN Sha1Of(<<1>>) ELSE 0,
                                       ModeRegular, LsPaths[i] = "e.txt" /\ v = "skip")
                               EXCEPT !.stage = IF LsPaths[i] = "e.txt" /\ v = "unmerged"
                                                THEN 2 ELSE 0]],
                       LAMBDA e : e.sha /= 0)) :
        S \in SUBSET (1..Len(LsPaths)), v \in {"plain", "skip", "unmerged"}}

\* The modes LsFiles is called in, and the explicit paths
LsModes ==
    {LsFilesOptions(TRUE, FALSE, FALSE, FALSE, FALSE, FALSE, FALSE),
     LsFilesOptions(FALSE, TRUE, FALSE, FALSE, FALSE, FALSE, FALSE),
     LsFilesOptions(FALSE, FALSE, TRUE, FALSE, FALSE, FALSE, FALSE),
     LsFilesOptions(FALSE, FALSE, FALSE, TRUE, FALSE, FALSE, FALSE),
     LsFilesOptions(FALSE, FALSE, FALSE, FALSE, TRUE, FALSE, FALSE),
     LsFilesOptions(FALSE, FALSE, FALSE, FALSE, FALSE, TRUE, FALSE),
     LsFilesOptions(FALSE, FALSE, FALSE, TRUE, FALSE, FALSE, TRUE),
     LsFilesOptions(FALSE, TRUE, TRUE, FALSE, FALSE, FALSE, FALSE)}
LsFileLists == {<<>>, <<"e.txt">>, <<"a">>, <<"a/b">>, <<"*.txt">>}

InitLs ==
    /\ refs = DefaultRefs
    /\ sparse = {}
    /\ clock = 1
    /\ indexFile \in LsIndexes
    /\ objects = SoundStore
    /\ wt \in LsWorkTrees
    /\ cc = NoLocals
    /\ ci \in [caller : {"ls"}, opt : LsModes, files : LsFileLists,
               notDirExists : BOOLEAN]
    /\ pc = "ls_call"
    /\ result = NoResult
    /\ pre = [indexFile |-> indexFile, wt |-> wt, refs |-> refs]

SpecLs == InitLs /\ [][LS_Call]_vars

-----------------------------------------------------------------------------
(* GetObject and GetContent on every stored form of one object *)

ByteSeqs(n) == UNION {[1..k -> {0, 1}] : k \in 0..n}

Streams ==
    {Stream(t, sz, nul, c) : t \in {"blob ", "tree ", "short"}, sz \in -1..MaxLen,
                             nul \in BOOLEAN, c \in ByteSeqs(MaxLen)}

StoredObjects == {Absent, Packed, HaveErr} \cup {Loose(z, st) : z \in BOOLEAN, st \in Streams}

InitObj ==
    /\ refs = DefaultRefs
    /\ sparse = {}
    /\ clock = 1
    /\ indexFile = IndexOf(<<>>)
    /\ objects \in {[SoundStore EXCEPT ![Sha1Of(<<1>>)] = o] : o \in StoredObjects}
    /\ wt = [f \in FileNames |-> NoFile]
    /\ cc = NoLocals
    /\ ci = [sha |-> Sha1Of(<<1>>), obj |-> NoResult]
    /\ pc = "go_call"
    /\ result = NoResult
    /\ pre = [indexFile |-> indexFile, wt |-> wt, refs |-> refs]

\* c.GetObject(sha1)
GO_Get ==
    /\ pc = "go_call"
    /\ LET r == GetObject(objects[ci.sha])
       IN  /\ result' = r
           /\ ci' = [ci EXCEPT !.obj = r]
           /\ pc' = IF r.kind = "ok" THEN "go_got" ELSE "done"
    /\ UNCHANGED <<refs, indexFile, wt, objects, sparse, clock, cc, pre>>

\* obj.GetContent() on the object returned
GO_Content ==
    /\ pc = "go_got"
    /\ result' = GetContent(ci.obj)
    /\ pc' = "done"
    /\ UNCHANGED <<refs, indexFile, wt, objects, sparse, clock, cc, ci, pre>>

NextObj == GO_Get \/ GO_Content

SpecObj == InitObj /\ [][NextObj]_vars

-----------------------------------------------------------------------------
(* Claims *)

InCC == cc /= NoLocals
Failed(e) == pc = "done" /\ result.kind = "err" /\ result.err = e

\* The target tree's paths that were on disk and not in the index when the
\* call began
InTheWay ==
    {p \in TreePaths(cc.cid) :
        pre.wt[p] /= NoFile /\ p \notin PathsOf(pre.indexFile.entries)}

\* C1: a checkout_commit without force that has resolved its target (steps
\* 1-3 passed) and finds a path of the target tree on disk and untracked goes
\* no further than step 4: it ends with WouldOverwriteUntracked, the error
\* lists every such path, and the working tree is as it was.
C1_UntrackedAborts ==
    (InCC /\ ~cc.opts.Force /\ cc.step >= 4 /\ InTheWay /= {})
        => /\ Failed("WouldOverwriteUntracked")
           /\ \A p \in InTheWay : InSeq(p, result.paths)
           /\ wt = pre.wt

C1_Witness ==
    /\ InCC /\ ~cc.opts.Force /\ Failed("WouldOverwriteUntracked")
    /\ Cardinality(InTheWay) = 2
    /\ result.paths = <<"README", "notes.txt">>

\* The tracked paths whose file content differed from the staged digest when
\* the call began
LocallyModified ==
    {p \in PathsOf(pre.indexFile.entries) :
        pre.wt[p] /= NoFile
        /\ Sha1Of(pre.wt[p].content) /= EntryOf(pre.indexFile.entries, p).sha}

\* C2: a checkout_commit without force that reaches step 6 (steps 1-5
\* passed) with a tracked file whose content differs from what is staged ends
\* with WouldOverwriteLocalChanges listing every such path; with force,
\* neither WouldOverwriteUntracked nor WouldOverwriteLocalChanges is returned.
C2_LocalChangesAbort ==
    InCC =>
        /\ (~cc.opts.Force /\ cc.step >= 6 /\ LocallyModified /= {})
              => /\ Failed("WouldOverwriteLocalChanges")
                 /\ \A p \in LocallyModified : InSeq(p, result.paths)
        /\ cc.opts.Force
              => ~Failed("WouldOverwriteUntracked") /\ ~Failed("WouldOverwriteLocalChanges")

C2_Witness ==
    /\ InCC /\ ~cc.opts.Force /\ Failed("WouldOverwriteLocalChanges")
    /\ Cardinality(LocallyModified) = 2

PreflightErrors ==
    {"Can not mix --all and named files", "BranchAlreadyExists", "HEAD", "target",
     "WouldOverwriteUntracked", "staged diff", "WouldOverwriteLocalChanges"}

\* C3: a call that ends with a failure of argument validation or of a
\* pre-flight check (steps 1-6) leaves the persisted index, every working-tree
\* file and every ref as they were when it began.
C3_PreflightFrame ==
    (pc = "done" /\ result.kind = "err" /\ result.err \in PreflightErrors)
        => indexFile = pre.indexFile /\ wt = pre.wt /\ refs = pre.refs

C3_Witness ==
    /\ InCC /\ Failed("staged diff")
    /\ \E f \in Paths : wt[f] /= NoFile
    /\ indexFile.entries /= <<>>
    /\ wt = pre.wt /\ indexFile = pre.indexFile /\ refs = pre.refs

\* The files of the new index's skip-worktree entries, which step 8 removes
SkippedPaths ==
    IF cc.cid = NoCommit \/ cc.opts.IgnoreSkipWorktreeBits THEN {}
    ELSE TreePaths(cc.cid) \cap sparse

C5_DeleteOnlyClean ==
    [][pc = "cc_delete" =>
        \A p \in Paths :
            /\ (p \in PathsOf(cc.origidx) /\ p \notin PathsOf(cc.idx))
                  => ((wt[p] /= NoFile /\ wt'[p] = NoFile)
                        <=> (wt[p] /= NoFile
                             /\ Sha1Of(wt[p].content) = EntryOf(cc.origidx, p).sha))
            /\ p \in PathsOf(cc.idx) => wt'[p] = wt[p]
            /\ wt'[p] \in {wt[p], NoFile}]_vars

C5_Witness ==
    /\ InCC /\ pc = "cc_checkout"
    /\ \E p, q \in PathsOf(cc.origidx) \ PathsOf(cc.idx) :
          /\ pre.wt[p] /= NoFile /\ wt[p] = NoFile
          /\ wt[q] /= NoFile /\ Sha1Of(wt[q].content) /= EntryOf(cc.origidx, q).sha

\* C6: after a successful non-forced checkout_commit, every path with a
\* staged change against HEAD (step 5) has its staged digest and mode at
\* stage 0 in the persisted index, and its file was not overwritten.
C6_StagedChangesSurvive ==
    (InCC /\ pc = "done" /\ result = Nil /\ ~cc.opts.Force)
        => \A i \in 1..Len(cc.stageddiffs) :
              LET d == cc.stageddiffs[i]
              IN  d.DstSha /= 0
                    => /\ d.Name \in PathsOf(indexFile.entries)
                       /\ EntryOf(indexFile.entries, d.Name).sha = d.DstSha
                       /\ EntryOf(indexFile.entries, d.Name).mode = d.DstMode
                       /\ EntryOf(indexFile.entries, d.Name).stage = 0
                       /\ wt[d.Name] = pre.wt[d.Name]

\* The entries of the new index that step 8 does not skip for skip-worktree
Unskipped ==
    LET es == ReadTree(cc.opts.IgnoreSkipWorktreeBits, cc.cid)
    IN  {es[i] : i \in {j \in 1..Len(es) :
                          ~(es[j].skip /\ ~cc.opts.IgnoreSkipWorktreeBits)}}

HasStaged(p) == \E i \in 1..Len(cc.stageddiffs) : cc.stageddiffs[i].Name = p

\* C7: in a non-forced checkout_commit, an unskipped entry of the new index
\* is left out of the materialization set only if a staged change exists for
\* its own path; every other one is written to disk by step 11.
C7_OnlyStagedPathsLeftOut ==
    (InCC /\ ~cc.opts.Force /\ cc.step >= 8)
        => \A e \in Unskipped :
              ~HasStaged(e.path)
                 => /\ InSeq(e.path, cc.checkoutfiles)
                    /\ (pc = "done" /\ result = Nil)
                          => (wt[e.path] /= NoFile /\ Sha1Of(wt[e.path].content) = e.sha)

\* C8: GetObject on a stored blob whose size field differs from the number of
\* content bytes after the zero byte returns the error CorruptObject: no
\* object, no panic.
C8_SizeMismatchIsCorruptObject ==
    LET o == objects[ci.sha]
    IN  (pc /= "go_call" /\ o.state = "loose" /\ o.zlib /\ o.stream.tag = "blob "
         /\ o.stream.nul /\ o.stream.size >= 0
         /\ o.stream.size /= Len(o.stream.content))
            => ci.obj = ErrRes("CorruptObject") /\ result = ErrRes("CorruptObject")

\* C9: at every point of a save, in checkout_index and in step 9 of
\* checkout_commit, the index file is the complete previous index or the
\* complete new one, also after a write that failed partway.
C9_AtomicIndexSave ==
    /\ indexFile.complete
    /\ \/ indexFile = pre.indexFile
       \/ InCC /\ indexFile = IndexOf(cc.idx)
       \/ ci /= NoLocals /\ indexFile = IndexOf(ci.idx)

CITarget(e) == ci.opts.Prefix \o e.path
CIMatched == {e \in {pre.indexFile.entries[i] : i \in 1..Len(pre.indexFile.entries)} :
                 InSeq(e.path, ci.files)}
CISkipped == {e \in CIMatched : pre.wt[CITarget(e)] /= NoFile}

\* A matched entry that is not skipped succeeds: its object is fetched and
\* its content read, and the file is there to stat
CISucceeds(e) ==
    /\ GetObject(objects[e.sha]).kind = "ok"
    /\ ci.opts.NoCreate \/ GetContent(GetObject(objects[e.sha])).kind = "content"
    /\ ~(ci.opts.NoCreate /\ ci.opts.UpdateStat /\ ci.opts.Prefix = "")

\* C10: in checkout_index with force false, an entry whose target file exists
\* is skipped: the file is left as it was, and whatever the state of the
\* entry's object the call returns no error when every entry that is not
\* skipped succeeds (the final save of the index aside).
C10_ExistingTargetSkipped ==
    (pc = "done" /\ ci.caller = "user" /\ ~ci.opts.Force
     /\ ~Failed("Can not mix --all and named files") /\ CISkipped /= {})
        => /\ \A e \in CISkipped : wt[CITarget(e)] = pre.wt[CITarget(e)]
           /\ (\A e \in CIMatched \ CISkipped : CISucceeds(e))
                 => result \in {Nil, ErrRes("create index"), ErrRes("write index")}

\* The positions of the loaded index whose entry a requested file matches, and
\* among them those not skipped (target absent, or Force)
CIMatchedAt ==
    {i \in 1..Len(pre.indexFile.entries) : InSeq(pre.indexFile.entries[i].path, ci.files)}
CIUnskippedAt ==
    {i \in CIMatchedAt :
        ci.opts.Force \/ pre.wt[CITarget(pre.indexFile.entries[i])] = NoFile}
CIFetchFailsAt ==
    {i \in CIUnskippedAt : GetObject(objects[pre.indexFile.entries[i].sha]).kind /= "ok"}

\* C11: when the content of an entry that is not skipped cannot be fetched
\* from the object store, checkout_index returns an error to its caller, the
\* entries after that one are not processed and the index is not persisted.
C11_FetchFailureAborts ==
    (pc = "done" /\ ci.caller = "user"
     /\ ~Failed("Can not mix --all and named files") /\ CIFetchFailsAt /= {})
        => /\ result.kind = "err"
           /\ indexFile = pre.indexFile
           /\ \A i \in CIFetchFailsAt : \A j \in CIMatchedAt :
                 j > i => wt[CITarget(pre.indexFile.entries[j])]
                            = pre.wt[CITarget(pre.indexFile.entries[j])]

\* Whether something is in the way of the index path p in w: an ancestor that
\* is not a directory, or a directory at p itself
Obstructed(w, p) ==
    \/ IsDir(w, p)
    \/ ParentOf(p) /= "" /\ Exists(w, ParentOf(p)) /\ ~IsDir(w, ParentOf(p))

\* C12: checkout_index with all and force (no_create unset, empty prefix),
\* called with no index path obstructed and every object retrievable, returns
\* no error, and afterwards every index entry's path holds the content of the
\* entry's object, also when the directory of a path did not exist.
C12_ForcedCheckoutOfAll ==
    (pc = "done" /\ ci.caller = "user" /\ ci.opts.All /\ ci.opts.Force
     /\ ~ci.opts.NoCreate /\ ci.opts.Prefix = ""
     /\ ~Failed("Can not mix --all and named files")
     /\ ~Failed("create index") /\ ~Failed("write index")
     /\ \A i \in 1..Len(pre.indexFile.entries) :
           /\ ~Obstructed(pre.wt, pre.indexFile.entries[i].path)
           /\ GetObject(objects[pre.indexFile.entries[i].sha]).kind = "ok"
           /\ GetContent(GetObject(objects[pre.indexFile.entries[i].sha])).kind = "content")
        => /\ result = Nil
           /\ \A i \in 1..Len(pre.indexFile.entries) :
                LET e == pre.indexFile.entries[i]
                IN  /\ Exists(wt, e.path) /\ ~IsDir(wt, e.path)
                    /\ wt[e.path].content = objects[e.sha].stream.content

\* A standalone call of checkout_index that has loaded the index
InCI == ci /= NoLocals /\ ci.caller = "user" /\ ci.i >= 1

NoMtime(e) == [e EXCEPT !.mtime = 0]

\* C13: checkout_index keeps the entries of the index it loaded: none added
\* or removed, and none changed other than in its mtime; an mtime changes
\* only with update_stat and an empty prefix, and only for an entry that was
\* processed; a saved index holds these entries.
C13_OnlyMtimeRefreshed ==
    InCI =>
        /\ Len(ci.idx) = Len(pre.indexFile.entries)
        /\ \A k \in 1..Len(ci.idx) :
              /\ NoMtime(ci.idx[k]) = NoMtime(pre.indexFile.entries[k])
              /\ ci.idx[k].mtime /= pre.indexFile.entries[k].mtime
                    => /\ ci.opts.UpdateStat /\ ci.opts.Prefix = ""
                       /\ k \in CIUnskippedAt /\ k < ci.i
        /\ indexFile.complete => indexFile = pre.indexFile \/ indexFile.entries = ci.idx

C13_Witness ==
    /\ InCI /\ pc = "done" /\ result = Nil
    /\ Len(ci.idx) = 2 /\ ci.files = <<"notes.txt">>
    /\ ci.idx[1].mtime = pre.indexFile.entries[1].mtime
    /\ ci.idx[2].mtime /= pre.indexFile.entries[2].mtime
    /\ indexFile.entries = ci.idx

\* C14: checkout_index changes the index file only when update_stat is set
\* and the loop has ended without a fatal error; without update_stat the
\* index file is what it was at the call, at every point of the call.
C14_IndexWrittenOnlyAtEnd ==
    (ci /= NoLocals /\ ci.caller = "user")
        => /\ indexFile /= pre.indexFile
                => /\ ci.opts.UpdateStat
                   /\ ci.i > Len(ci.idx)
                   /\ pc \in {"ci_write", "done"}
                   /\ result \in {NoResult, Nil, ErrRes("write index")}
           /\ ~ci.opts.UpdateStat => indexFile = pre.indexFile

C14_Witness ==
    /\ InCI /\ pc = "done" /\ result = Nil /\ ci.opts.UpdateStat
    /\ indexFile /= pre.indexFile /\ indexFile = IndexOf(ci.idx)

\* C15: with no_create, checkout_index creates no file and changes no file's
\* content, refreshes the mtime of an entry only when its file exists and
\* hashes to the entry's digest, and does not fail because a target is missing.
C15_NoCreateOnlyRefreshes ==
    (InCI /\ ci.opts.NoCreate)
        => /\ \A f \in DOMAIN wt :
                 IF pre.wt[f] = NoFile THEN wt[f] = NoFile
                 ELSE wt[f] /= NoFile /\ wt[f].content = pre.wt[f].content
           /\ \A k \in 1..Len(ci.idx) :
                 ci.idx[k].mtime /= pre.indexFile.entries[k].mtime
                    => /\ pre.wt[ci.idx[k].path] /= NoFile
                       /\ HashFile(pre.wt, ci.idx[k].path) = ci.idx[k].sha
           /\ ~Failed("stat")

\* The refs a successful checkout_commit leaves, from the refs at the call
RefsAfter ==
    LET target == CommitID(pre.refs, cc.commit)
    IN  IF cc.opts.Branch /= ""
        THEN [head |-> [kind |-> "symbolic", name |-> cc.opts.Branch],
              heads |-> [pre.refs.heads EXCEPT ![cc.opts.Branch] = target]]
        ELSE IF cc.commit.kind = "branch" /\ ~cc.opts.Detach
        THEN [head |-> [kind |-> "symbolic", name |-> cc.commit.name],
              heads |-> pre.refs.heads]
        ELSE [head |-> [kind |-> "detached", id |-> target], heads |-> pre.refs.heads]

\* C16: checkout_commit touches no ref before its last step, and a successful
\* call leaves exactly the refs of the one transition its options select: the
\* new branch at the target with HEAD on it; else HEAD on the target branch;
\* else HEAD detached at the target commit; every other ref as it was.
C16_OneHeadTransition ==
    InCC => IF pc = "done" /\ result = Nil THEN refs = RefsAfter
            ELSE pc /= "done" => refs = pre.refs

C16_Witness ==
    /\ InCC /\ pc = "done" /\ result = Nil
    /\ cc.opts.Branch = "dev" /\ cc.commit = [kind |-> "commit", id |-> "c2"]
    /\ refs.heads["dev"] = "c2" /\ refs.heads["main"] = pre.refs.heads["main"]
    /\ refs.head = [kind |-> "symbolic", name |-> "dev"]

\* The call ends by setting HEAD to the commit itself (step 15)
DetachedCase == cc.opts.Branch = "" /\ ~(cc.commit.kind = "branch" /\ ~cc.opts.Detach)

\* C17: in the detached case, when another writer has changed HEAD since
\* step 2 read it, the move of HEAD fails with RefUpdateConflict and HEAD
\* keeps the other writer's value.
C17_HeadMoveIsConditional ==
    [][(pc = "cc_refs" /\ pc' = "done" /\ DetachedCase /\ refs.head /= pre.refs.head)
          => (result' = ErrRes("RefUpdateConflict") /\ refs' = refs)]_vars

C17_Witness ==
    /\ InCC /\ pc = "done" /\ Failed("RefUpdateConflict") /\ DetachedCase
    /\ pre.refs.head = [kind |-> "symbolic", name |-> "main"]
    /\ refs.head = [kind |-> "detached", id |-> "c2"]
    /\ indexFile /= pre.indexFile

\* C18: GetObject ends, for every stored form of the object, with an object
\* or with an error value, never with the end of the process: an error for a
\* digest with no stored object, a different error for a packed object, an
\* error for a stream that cannot be opened or decoded.
C18_GetObjectNeverPanics ==
    pc /= "go_call" =>
        LET o == objects[ci.sha]
            undecodable == o.state = "haveerr"
                             \/ (o.state = "loose"
                                   /\ (~o.zlib \/ o.stream.tag /= "blob " \/ ~o.stream.nul))
        IN  /\ ci.obj.kind \in {"ok", "err"}
            /\ o.state = "absent" => ci.obj.kind = "err"
            /\ o.state = "packed"
                  => ci.obj.kind = "err" /\ ci.obj /= GetObject(Absent)
            /\ undecodable => ci.obj.kind = "err"

\* The ancestors of path p that are in the way in w: those that exist and
\* are not directories, with no existing directory between them and p
KilledAbove(w, p) ==
    {q \in DeepNames :
        /\ IsUnder(p, q) /\ Exists(w, q) /\ ~IsDir(w, q)
        /\ ~\E d \in DeepNames : IsUnder(p, d) /\ IsUnder(d, q) /\ IsDir(w, d)}

\* C20: in killed mode the result holds, for every index entry, K once for
\* each ancestor of its path that exists and is not a directory (none at or
\* above the first existing directory), and K for its own path when that is
\* a directory; nothing else.
C20_KilledAncestors ==
    (pc = "done" /\ result.kind = "ls")
        => \A n \in DeepNames :
              Cardinality({i \in 1..Len(result.entries) :
                              result.entries[i] = StatusEntry(n, "K")})
                = Cardinality({i \in 1..Len(indexFile.entries) :
                                  \/ n \in KilledAbove(wt, indexFile.entries[i].path)
                                  \/ n = indexFile.entries[i].path /\ IsDir(wt, n)})

\* C20 for an index of one entry directly under a plain file: K for that
\* file, once
C20_OneLevel ==
    (/\ pc = "done" /\ result.kind = "ls"
     /\ Len(indexFile.entries) = 1 /\ indexFile.entries[1].path = "a/d.txt"
     /\ Exists(wt, "a") /\ ~IsDir(wt, "a"))
        => result.entries = <<StatusEntry("a", "K")>>

\* The verdict of a pattern list on a path: that of the last pattern that
\* matches it; not ignored when none does
Ignored(patterns, name, isDir) ==
    LET m == {i \in 1..Len(patterns) : Matches(patterns[i], name, isDir)}
    IN  m /= {} /\ ~Negated(patterns[CHOOSE i \in m : \A j \in m : j <= i])

\* C19: the scanner skips an entry exactly when the last pattern that
\* matches it is an excluding one, so LsFiles with Others reports the files
\* that are not tracked and neither ignored themselves nor inside an ignored
\* directory; with <<"*.log", "!keep.log">> it reports keep.log and not
\* debug.log.
C19_LastMatchWins ==
    (pc = "done" /\ result.kind = "ls")
        => \A f \in OthersNames :
              (\E i \in 1..Len(result.entries) : result.entries[i] = StatusEntry(f, "?"))
                <=> /\ Exists(wt, f) /\ ~IsDir(wt, f)
                    /\ f \notin PathsOf(indexFile.entries)
                    /\ ~Ignored(ci.patterns, f, FALSE)
                    /\ \A d \in OthersNames :
                          IsUnder(f, d) => ~Ignored(ci.patterns, d, TRUE)

\* C25: checkout_index changes files only at the targets prefix + path of the
\* entries it matched; with a non-empty prefix the file at the tracked path
\* keeps its content and its permission bits.
C25_EffectsOnlyAtTarget ==
    InCI =>
        /\ \A f \in FileNames :
              wt[f] /= pre.wt[f] => \E e \in CIMatched : f = CITarget(e)
        /\ ci.opts.Prefix /= "" => \A p \in Paths : wt[p] = pre.wt[p]

\* C24: the untracked check of checkout_commit looks only at the target
\* tree's paths: WouldOverwriteUntracked lists paths of the target tree only,
\* and without an untracked file on disk at a path of the target tree the
\* call does not fail with it, whatever the target tree (an empty one too).
C24_UntrackedCheckOnlyTargetPaths ==
    (InCC /\ cc.step >= 4) =>
        /\ Failed("WouldOverwriteUntracked")
              => \A i \in 1..Len(result.paths) : result.paths[i] \in TreePaths(cc.cid)
        /\ InTheWay = {} => ~Failed("WouldOverwriteUntracked")

\* A step of checkout_commit that ends the call with a failure in steps 9-11
FailsInSteps9To11 ==
    /\ InCC /\ pc /= "done" /\ pc' = "done"
    /\ cc'.step \in 9..11 /\ result' /= Nil

\* C23: checkout_commit changes a ref only in its last step, after the index
\* was persisted, the old files deleted and the files checked out without
\* error; a step that fails in steps 9-11 leaves every ref as before the call
\* and undoes nothing: an index file or working tree that differed from the
\* ones at the call still differs.
C23_RefsMoveLast ==
    [][/\ refs' /= refs
            => pc = "cc_refs" /\ cc.step = 11 /\ cc.indexWritten /\ result = NoResult
       /\ FailsInSteps9To11
            => /\ refs' = pre.refs
               /\ indexFile /= pre.indexFile => indexFile' /= pre.indexFile
               /\ wt /= pre.wt => wt' /= pre.wt]_vars

C23_Witness ==
    /\ InCC /\ pc = "done" /\ result.kind = "err" /\ cc.step = 11
    /\ indexFile /= pre.indexFile /\ wt /= pre.wt /\ refs = pre.refs

\* Whether the result of LsFiles holds an entry of path p and status st
Reported(p, st) ==
    \E i \in 1..Len(result.entries) : result.entries[i] = StatusEntry(p, st)

LsTracked == PathsOf(indexFile.entries)

\* The directories the collapsed scan comes to: those whose every ancestor
\* has a tracked path inside
ScanReaches(d) ==
    \A q \in LsNames : IsUnder(d, q) => \E t \in LsTracked : IsUnder(t, q)

\* C22: in the scan without recursion (LsFiles with Others and Directory, no
\* ignore patterns) a directory the scan comes to is reported itself, and
\* nothing below it, exactly when no tracked path is inside it; when one is,
\* the scan goes into it: the directory is not reported and the untracked
\* files in it are.
C22_DirectoryCollapsed ==
    (pc = "done" /\ result.kind = "ls" /\ ci.opt.Others /\ ci.opt.Directory
     /\ ci.files = <<>>)
        => \A d \in LsNames :
              (IsDir(wt, d) /\ ScanReaches(d))
                 => IF \E t \in LsTracked : IsUnder(t, d)
                    THEN /\ ~Reported(d \o "/", "?")
                         /\ \A f \in LsNames :
                               (ParentOf(f) = d /\ Exists(wt, f) /\ ~IsDir(wt, f)
                                /\ f \notin LsTracked) => Reported(f, "?")
                    ELSE /\ Reported(d \o "/", "?")
                         /\ \A f \in LsNames : IsUnder(f, d) => ~Reported(f, "?")

\* The explicit-path filter as the spec states it: the path is one of the
\* requested paths, below one, or matches one as a glob
Requested(p, files) ==
    \E i \in 1..Len(files) :
        Clean(p) = files[i] \/ IsUnder(Clean(p), files[i]) \/ MatchGlob(Clean(p), files[i])

\* C21: when LsFiles is given explicit paths, every entry of its result, in
\* every mode and with every status, has a requested path, a path below a
\* requested one, or a path matching a requested glob; the untracked files
\* reported are the files of the unfiltered scan that pass this same filter.
C21_ExplicitPathsFilterAll ==
    (pc = "done" /\ result.kind = "ls" /\ Len(ci.files) > 0)
        => /\ \A i \in 1..Len(result.entries) :
                 Requested(result.entries[i].path, ci.files)
           /\ ci.opt.Others
                 => \A f \in {r.path : r \in
                                 {LsOthers(wt, indexFile.entries, ci.opt, <<>>)[i] :
                                     i \in 1..Len(LsOthers(wt, indexFile.entries, ci.opt, <<>>))}} :
                        Requested(f, ci.files) => Reported(f, "?")

====
